---- MODULE Spec2Model ----
(***************************************************************************)
(* Halfsy API (src/main.py): the catalog handlers get_products,            *)
(* get_top_deals and get_brands over the products collection, the contact  *)
(* handler submit_contact_form over the messages collection and the        *)
(* Outlook notification, and the discount parser extract_discount.         *)
(*                                                                         *)
(* A request is handled in steps (pc), one store call per step, so that    *)
(* a store failure and an external writer can fall between two calls.      *)
(***************************************************************************)
EXTENDS Integers, Sequences, FiniteSets, TLC

VARIABLES
    products_collection,  \* None, or the handle of the products, which are
                          \* kept in store-default order
    messages_collection,  \* None, or the handle of the contact messages
    OUTLOOK_USER,         \* None, or the configured account
    OUTLOOK_PASSWORD,     \* None, or the configured credential
    pc,                   \* position of the request being handled
    req,                  \* the operation and its parameters
    top_deals,            \* get_top_deals: the local list top_deals
    total_products,       \* get_products: the local total_products
    inserted_id,          \* submit_contact_form: result.inserted_id
    response,             \* what the handler returned or raised
    log,                  \* history: store and mail calls of this request
    dirty                 \* history: a write landed between two store reads
                          \* of this request

vars == <<products_collection, messages_collection, OUTLOOK_USER,
          OUTLOOK_PASSWORD, pc, req, top_deals, total_products,
          inserted_id, response, log, dirty>>

(***************************************************************************)
(* Bounds of the model.                                                    *)
(***************************************************************************)
MaxCatalog == 3     \* products in the store
MaxLimit == 2       \* largest limit parameter
MaxPage == 2        \* largest page parameter
MaxLen == 4         \* longest disc_pct string given to the parser alone
MaxMessages == 2    \* contact messages stored

(***************************************************************************)
(* Values of a document field or a parameter: Python/BSON values by type.  *)
(* A string that the code parses (disc_pct, min_discount) is a sequence of *)
(* one-character strings; a name or a link, only compared, is a string.    *)
(***************************************************************************)
None == [t |-> "null"]
Missing == [t |-> "missing"]
Str(s) == [t |-> "str", v |-> s]
Num(n) == [t |-> "num", v |-> n]
\* a collection handle and the documents behind it
Collection(docs) == [t |-> "collection", docs |-> docs]

Min(a, b) == IF a < b THEN a ELSE b
Max(a, b) == IF a > b THEN a ELSE b

\* s[:n] for n >= 0
Take(s, n) == SubSeq(s, 1, Min(n, Len(s)))
\* s[n:] for n >= 0
Drop(s, n) == SubSeq(s, Min(n, Len(s)) + 1, Len(s))

\* Python truthiness of a name or link: None, a missing key's None and ""
\* are falsy
Truthy(x) == x.t = "str" /\ x.v # ""

(***************************************************************************)
(* str.replace(c, ""), str.isdigit() and int() on the characters used.     *)
(***************************************************************************)
AsciiDigits == {"0", "1", "2", "3", "4", "5", "6", "7", "8", "9"}
\* str.isdigit() also accepts digits that int() refuses, such as a superscript
UnicodeDigits == AsciiDigits \cup {"^2"}
Chars == {"-", "%", "5", "0", "a", "^2"}

Replace(s, c) == SelectSeq(s, LAMBDA ch : ch # c)

IsDigit(s) == s # <<>> /\ \A i \in 1..Len(s) : s[i] \in UnicodeDigits

DigitVal(ch) ==
    CASE ch = "0" -> 0 [] ch = "1" -> 1 [] ch = "2" -> 2 [] ch = "3" -> 3
      [] ch = "4" -> 4 [] ch = "5" -> 5 [] ch = "6" -> 6 [] ch = "7" -> 7
      [] ch = "8" -> 8 [] ch = "9" -> 9

RECURSIVE Decimal(_)
Decimal(s) ==
    IF s = <<>> THEN 0
    ELSE 10 * Decimal(SubSeq(s, 1, Len(s) - 1)) + DigitVal(s[Len(s)])

\* int(s): an optional sign and ASCII digits parse; anything else raises
\* ValueError (whitespace, "+" and "_" are not among Chars)
IntParses(s) ==
    LET body == IF s # <<>> /\ s[1] = "-" THEN Tail(s) ELSE s
    IN  body # <<>> /\ \A i \in 1..Len(body) : body[i] \in AsciiDigits

Int_(s) ==
    IF s[1] = "-" THEN 0 - Decimal(Tail(s)) ELSE Decimal(s)

(***************************************************************************)
(* extract_discount, the sort key of get_top_deals.                        *)
(***************************************************************************)
\* a variant that strips one leading "-" and one trailing "%" only
extract_discount_strip(product) ==
    LET disc_pct == IF product.disc_pct = Missing
                    THEN Str(<<"-", "0", "%">>) ELSE product.disc_pct
    IN  IF disc_pct.t # "str" THEN 0
        ELSE LET a == IF disc_pct.v # <<>> /\ disc_pct.v[1] = "-"
                      THEN Tail(disc_pct.v) ELSE disc_pct.v
                 num_str == IF a # <<>> /\ a[Len(a)] = "%"
                            THEN SubSeq(a, 1, Len(a) - 1) ELSE a
             IN  IF IsDigit(num_str) /\ IntParses(num_str)
                 THEN Int_(num_str) ELSE 0

extract_discount(product) ==
    LET \* product.get("disc_pct", "-0%"): the default only for a missing key
        disc_pct == IF product.disc_pct = Missing
                    THEN Str(<<"-", "0", "%">>) ELSE product.disc_pct
    IN  IF disc_pct.t # "str"
        THEN 0          \* None.replace: AttributeError, caught, return 0
        ELSE LET num_str == Replace(Replace(disc_pct.v, "-"), "%")
             IN  IF IsDigit(num_str)
                 THEN IF IntParses(num_str)
                      THEN Int_(num_str)
                      ELSE 0        \* int(): ValueError, caught, return 0
                 ELSE 0

(***************************************************************************)
(* The parser alone: every disc_pct value up to MaxLen characters.         *)
(***************************************************************************)
RECURSIVE Strings(_)
Strings(n) ==
    IF n = 0 THEN {<<>>}
    ELSE LET shorter == Strings(n - 1)
         IN  shorter \cup {Append(s, c) : s \in {x \in shorter : Len(x) = n - 1},
                                          c \in Chars}

DiscValues == {Missing, None, Num(50)} \cup {Str(s) : s \in Strings(MaxLen)}

NoResponse == [status |-> 0]

InitParse ==
    /\ products_collection = None
    /\ messages_collection = None
    /\ OUTLOOK_USER = None
    /\ OUTLOOK_PASSWORD = None
    /\ pc = "sort_key"
    /\ req \in {[op |-> "extract_discount", product |-> [disc_pct |-> d]] :
                    d \in DiscValues}
    /\ top_deals = <<>>
    /\ total_products = 0
    /\ inserted_id = 0
    /\ response = NoResponse
    /\ log = <<>>
    /\ dirty = FALSE

\* list.sort(key=extract_discount) calls the key function on a product
SortKey ==
    /\ pc = "sort_key"
    /\ pc' = "done"
    /\ response' = [status |-> 0, returned |-> extract_discount(req.product)]
    /\ UNCHANGED <<products_collection, messages_collection, OUTLOOK_USER,
                   OUTLOOK_PASSWORD, req, top_deals, total_products,
                   inserted_id, log, dirty>>

NextParse == SortKey

SpecParse == InitParse /\ [][NextParse]_vars

(***************************************************************************)
(* The products collection: documents of the store, in store-default       *)
(* order.  Pool holds the documents an external writer may insert.         *)
(***************************************************************************)
Doc(id, brand, disc, discount, link) ==
    [_id |-> id, brand_name |-> brand, disc_pct |-> disc,
     discount |-> discount, product_link |-> link]

Pool ==
    { Doc(1, Str("Brioni"), Str(<<"-", "5", "0", "%">>), Num(50), Str("a")),
      Doc(2, Str("Gucci"), Str(<<"-", "2", "0", "%">>), Num(20), Str("b")),
      Doc(3, Str("Zimmermann"), Str(<<"-", "7", "0", "%">>), Num(70), Str("")),
      Doc(4, Str("Gucci"), Str(<<>>), Missing, Str("c")),
      Doc(5, Str("Prada"), None, Num(30), Missing) }

\* the projection {"_id": 0}
Project(doc) == [f \in (DOMAIN doc) \ {"_id"} |-> doc[f]]

ProjectAll(docs) == [i \in 1..Len(docs) |-> Project(docs[i])]

\* cursor.limit(n): a limit of 0 is no limit
Limit(docs, n) == IF n = 0 THEN docs ELSE Take(docs, n)

\* find(filter, {"_id": 0}).limit(n): of the documents the filter selects,
\* in store order
Find(selected, n) == Limit(ProjectAll(selected), n)

\* {"disc_pct": {"$exists": True, "$ne": None, "$ne": ""}}: the dict literal
\* keeps the last "$ne" only, so the filter is {"$exists": True, "$ne": ""}
HasDiscount(doc) == doc.disc_pct # Missing /\ doc.disc_pct # Str(<<>>)

\* {"product_link": {"$nin": existing_ids}} if existing_ids else {}
\* ($nin also matches a document without the field)
NotIn(existing_ids, doc) ==
    \/ existing_ids = <<>>
    \/ doc.product_link = Missing
    \/ \A i \in 1..Len(existing_ids) : doc.product_link # existing_ids[i]

AllDocs(doc) == TRUE

\* [p.get("product_link") for p in top_deals if p.get("product_link")]
ExistingIds(deals) ==
    LET linked == SelectSeq(deals, LAMBDA p : Truthy(p.product_link))
    IN  [i \in 1..Len(linked) |-> linked[i].product_link]

\* list.sort(key=extract_discount, reverse=True): stable, descending
RECURSIVE SortByDiscount(_)
SortByDiscount(s) ==
    IF s = <<>> THEN <<>>
    ELSE LET front == SortByDiscount(SubSeq(s, 1, Len(s) - 1))
             x == s[Len(s)]
             k == Cardinality({i \in 1..Len(front) :
                      extract_discount(front[i]) >= extract_discount(x)})
         IN  Take(front, k) \o <<x>> \o Drop(front, k)

Ok(body) == [status |-> 200, body |-> body]
HTTPException(status_code, detail) == [status |-> status_code, detail |-> detail]

Limits == 0..MaxLimit

(***************************************************************************)
(* The external writer of the catalog (the system only reads it).  It may  *)
(* act between any two store calls of a request; once the response is      *)
(* made, later writes cannot change it and are left to the next request.   *)
(***************************************************************************)
\* positions of a request that has read the store and will read it again
AfterFirstRead == {"gp_aggregate", "td_backfill", "td_fallback"}

WriterInsert ==
    /\ pc # "done"
    /\ products_collection # None
    /\ Len(products_collection.docs) < MaxCatalog
    /\ \E doc \in Pool :
        /\ \A i \in 1..Len(products_collection.docs) :
                products_collection.docs[i] # doc
        /\ products_collection' =
                Collection(Append(products_collection.docs, doc))
    /\ dirty' = (dirty \/ pc \in AfterFirstRead)
    /\ UNCHANGED <<messages_collection, OUTLOOK_USER, OUTLOOK_PASSWORD, pc, req,
                   top_deals, total_products, inserted_id, response, log>>

WriterDelete ==
    /\ pc # "done"
    /\ products_collection # None
    /\ \E i \in 1..Len(products_collection.docs) :
        products_collection' =
            Collection(Take(products_collection.docs, i - 1)
                           \o Drop(products_collection.docs, i))
    /\ dirty' = (dirty \/ pc \in AfterFirstRead)
    /\ UNCHANGED <<messages_collection, OUTLOOK_USER, OUTLOOK_PASSWORD, pc, req,
                   top_deals, total_products, inserted_id, response, log>>

(***************************************************************************)
(* GET /api/products/top-deals                                             *)
(***************************************************************************)
\* an unavailable store answered with an empty success
EmptyWhenNotAvailable == [status |-> 200, body |-> <<>>]

\* lines 72-73, 262-263, 293-294: raised when the handle is None
DatabaseNotAvailable ==
    HTTPException(500, "Database connection not available")

get_top_deals ==
    /\ pc = "idle"
    /\ \E limit \in Limits :
        req' = [op |-> "get_top_deals", limit |-> limit]
    /\ IF products_collection = None
       THEN pc' = "done" /\ response' = DatabaseNotAvailable
       ELSE pc' = "td_discount" /\ UNCHANGED response
    /\ UNCHANGED <<products_collection, messages_collection, OUTLOOK_USER,
                   OUTLOOK_PASSWORD, top_deals, total_products, inserted_id,
                   log, dirty>>

\* products_with_discount sorted, then [:limit]
PrimarySelection(products_with_discount, limit) ==
    Take(SortByDiscount(products_with_discount), limit)

\* lines 78-99: the discount query, the sort and the cut to limit
TopDealsDiscount ==
    /\ pc = "td_discount"
    /\ \E ok \in BOOLEAN :
        /\ log' = Append(log, [call |-> "find_discount", ok |-> ok])
        /\ IF ~ok
           THEN \* the query raises: except Exception
                pc' = "td_fallback" /\ UNCHANGED <<top_deals, response>>
           ELSE LET found == Find(SelectSeq(products_collection.docs,
                                            HasDiscount), req.limit * 2)
                    deals == PrimarySelection(found, req.limit)
                IN  /\ top_deals' = deals
                    /\ IF Len(deals) < req.limit
                       THEN pc' = "td_backfill" /\ UNCHANGED response
                       ELSE pc' = "done"
                            /\ response' = Ok(Take(deals, req.limit))
    /\ UNCHANGED <<products_collection, messages_collection, OUTLOOK_USER,
                   OUTLOOK_PASSWORD, req, total_products, inserted_id, dirty>>

\* the backfill query of lines 106-111
Additional(coll, deals, remaining) ==
    LET existing_ids == ExistingIds(deals)
    IN  Find(SelectSeq(coll, LAMBDA doc : NotIn(existing_ids, doc)),
             remaining)

\* lines 102-114: fill with regular products
TopDealsBackfill ==
    /\ pc = "td_backfill"
    /\ \E ok \in BOOLEAN :
        /\ log' = Append(log, [call |-> "find_backfill", ok |-> ok,
                               primary |-> Len(top_deals)])
        /\ IF ~ok
           THEN pc' = "td_fallback" /\ UNCHANGED <<top_deals, response>>
           ELSE LET remaining == req.limit - Len(top_deals)
                    additional == Additional(products_collection.docs, top_deals,
                                             remaining)
                IN  /\ top_deals' = top_deals \o additional
                    /\ pc' = "done"
                    /\ response' = Ok(Take(top_deals \o additional, req.limit))
    /\ UNCHANGED <<products_collection, messages_collection, OUTLOOK_USER,
                   OUTLOOK_PASSWORD, req, total_products, inserted_id, dirty>>

\* lines 115-120: the fallback query, and the error when it fails too
TopDealsFallback ==
    /\ pc = "td_fallback"
    /\ \E ok \in BOOLEAN :
        /\ log' = Append(log, [call |-> "find_fallback", ok |-> ok])
        /\ pc' = "done"
        /\ response' = IF ok
                       THEN Ok(Find(SelectSeq(products_collection.docs, AllDocs),
                                    req.limit))
                       ELSE HTTPException(500, "Error fetching top deals")
    /\ UNCHANGED <<products_collection, messages_collection, OUTLOOK_USER,
                   OUTLOOK_PASSWORD, req, top_deals, total_products,
                   inserted_id, dirty>>

(***************************************************************************)
(* GET /api/products                                                       *)
(***************************************************************************)
Pages == 0..MaxPage
Brands == {None, Str("Gucci")}
MinDiscounts == {None, Str(<<>>), Str(<<"3", "0">>), Str(<<"a">>)}
\* sort_by ranges over None and fields that hold numbers
SortBys == {None, Str("discount"), Str("brand_priority")}
SortOrders == {"asc", "desc"}

PRIORITY_BRANDS == {Str("Brunello Cucinelli"), Str("Brioni"), Str("Zimmermann")}

\* an offset counted from the page number itself
SkipFromPage(page, limit) == page * limit

\* skip = (page - 1) * limit
Skip(page, limit) == (page - 1) * limit

\* lines 137-145: the $match query; Missing stands for an absent key
Query(r) ==
    [brand_name |-> IF Truthy(r.brand) THEN r.brand ELSE Missing,
     discount_gte |->
        IF r.min_discount # None /\ r.min_discount # Str(<<>>)
        THEN IF IntParses(r.min_discount.v)
             THEN Num(Int_(r.min_discount.v))
             ELSE Missing           \* int(): ValueError, except: pass
        ELSE Missing]

\* a comparison with a number matches documents holding a number only
Matches(query, doc) ==
    /\ query.brand_name = Missing \/ doc.brand_name = query.brand_name
    /\ \/ query.discount_gte = Missing
       \/ doc.discount.t = "num" /\ doc.discount.v >= query.discount_gte.v

\* count_documents(query)
CountDocuments(coll, query) ==
    Len(SelectSeq(coll, LAMBDA doc : Matches(query, doc)))

\* lines 156-170: the $addFields stage
BrandPriority(r, doc) ==
    IF ~Truthy(r.brand)
    THEN IF doc.brand_name \in PRIORITY_BRANDS THEN 0 ELSE 1
    ELSE 1

AddFields(r, doc) ==
    [f \in (DOMAIN doc) \cup {"brand_priority"} |->
        IF f = "brand_priority" THEN Num(BrandPriority(r, doc)) ELSE doc[f]]

\* lines 173-180: sort_stage, a dict: assigning an existing key replaces its
\* value and keeps its place
SortStage(r) ==
    LET order == IF r.sort_order = "asc" THEN 1 ELSE -1
    IN  IF Truthy(r.sort_by)
        THEN IF r.sort_by.v = "brand_priority"
             THEN <<[field |-> "brand_priority", order |-> order]>>
             ELSE <<[field |-> "brand_priority", order |-> 1],
                    [field |-> r.sort_by.v, order |-> order]>>
        ELSE <<[field |-> "brand_priority", order |-> 1]>>

\* the store's order of two values: null and missing sort before numbers
ValueLess(a, b) ==
    IF a.t = "num" /\ b.t = "num" THEN a.v < b.v
    ELSE a.t # "num" /\ b.t = "num"

\* -1, 0 or 1: the $sort comparison of two documents under a sort stage
RECURSIVE Compare(_, _, _)
Compare(stage, d1, d2) ==
    IF stage = <<>> THEN 0
    ELSE LET k == stage[1]
             a == d1[k.field]
             b == d2[k.field]
         IN  IF ValueLess(a, b) THEN 0 - k.order
             ELSE IF ValueLess(b, a) THEN k.order
             ELSE Compare(Tail(stage), d1, d2)

\* every order of the documents $sort may produce: ties are unspecified
SortedOrders(docs, stage) ==
    LET n == Cardinality(docs)
    IN  {s \in [1..n -> docs] :
            /\ \A i, j \in 1..n : i # j => s[i] # s[j]
            /\ \A i, j \in 1..n : i < j => Compare(stage, s[i], s[j]) <= 0}

\* the pipeline: $match, $addFields, $sort, $skip, $limit, $project
Aggregate(coll, r) ==
    LET matched == {AddFields(r, coll[i]) : i \in
                       {j \in 1..Len(coll) : Matches(Query(r), coll[j])}}
    IN  {ProjectAll(Take(Drop(s, Skip(r.page, r.limit)), r.limit)) :
            s \in SortedOrders(matched, SortStage(r))}

HasMoreInclusive(skip, limit, total) == (skip + limit) <= total

\* has_more of line 206
HasMore(skip, limit, total) == (skip + limit) < total

\* math.ceil(total / limit), limit > 0
Ceil(total, limit) == (total + limit - 1) \div limit

\* an exception no handler catches: the framework answers 500
InternalServerError == HTTPException(500, "Internal Server Error")

get_products ==
    /\ pc = "idle"
    /\ \E page \in Pages, limit \in Limits, brand \in Brands,
          min_discount \in MinDiscounts, sort_by \in SortBys,
          sort_order \in SortOrders :
        /\ req' = [op |-> "get_products", page |-> page, limit |-> limit,
                   brand |-> brand, min_discount |-> min_discount,
                   sort_by |-> sort_by, sort_order |-> sort_order]
        /\ IF page < 1
           THEN pc' = "done"
                /\ response' = HTTPException(400, "Page must be >= 1")
           ELSE pc' = "gp_count" /\ UNCHANGED response
    /\ UNCHANGED <<products_collection, messages_collection, OUTLOOK_USER,
                   OUTLOOK_PASSWORD, top_deals, total_products, inserted_id,
                   log, dirty>>

\* line 195: count_documents; on None the attribute lookup raises
ProductsCount ==
    /\ pc = "gp_count"
    /\ IF products_collection = None
       THEN /\ pc' = "done"
            /\ response' = InternalServerError
            /\ UNCHANGED <<total_products, log>>
       ELSE \E ok \in BOOLEAN :
            /\ log' = Append(log, [call |-> "count_documents", ok |-> ok])
            /\ IF ok
               THEN /\ total_products' =
                            CountDocuments(products_collection.docs, Query(req))
                    /\ pc' = "gp_aggregate"
                    /\ UNCHANGED response
               ELSE /\ pc' = "done"
                    /\ response' = InternalServerError
                    /\ UNCHANGED total_products
    /\ dirty' = FALSE
    /\ UNCHANGED <<products_collection, messages_collection, OUTLOOK_USER,
                   OUTLOOK_PASSWORD, req, top_deals, inserted_id>>

\* lines 198-207: aggregate and the response; {"$limit": 0} is refused by
\* the store (and total_products / 0 raises)
ProductsAggregate ==
    /\ pc = "gp_aggregate"
    /\ pc' = "done"
    /\ \E ok \in BOOLEAN :
        /\ log' = Append(log, [call |-> "aggregate", ok |-> ok])
        /\ IF ~ok \/ req.limit = 0
           THEN response' = InternalServerError
           ELSE \E products \in Aggregate(products_collection.docs, req) :
                response' = Ok([products |-> products,
                    total_products |-> total_products,
                    limit |-> req.limit,
                    page |-> req.page,
                    total_pages |-> Ceil(total_products, req.limit),
                    has_more |-> HasMore(Skip(req.page, req.limit),
                                         req.limit, total_products)])
    /\ UNCHANGED <<products_collection, messages_collection, OUTLOOK_USER,
                   OUTLOOK_PASSWORD, req, top_deals, total_products,
                   inserted_id, dirty>>

(***************************************************************************)
(* GET /api/brands and GET /                                               *)
(***************************************************************************)
\* distinct("brand_name"): the values present, in no particular order
Distinct(coll) ==
    {coll[i].brand_name : i \in {j \in 1..Len(coll) :
                                    coll[j].brand_name # Missing}}

get_brands ==
    /\ pc = "idle"
    /\ req' = [op |-> "get_brands"]
    /\ IF products_collection = None
       THEN pc' = "done" /\ response' = DatabaseNotAvailable /\ UNCHANGED log
       ELSE \E ok \in BOOLEAN :
            /\ log' = Append(log, [call |-> "distinct", ok |-> ok])
            /\ pc' = "done"
            /\ response' =
                 IF ok THEN Ok([brands |-> Distinct(products_collection.docs)])
                 ELSE HTTPException(500, "Error fetching brands")
    /\ UNCHANGED <<products_collection, messages_collection, OUTLOOK_USER,
                   OUTLOOK_PASSWORD, top_deals, total_products, inserted_id,
                   dirty>>

read_root ==
    /\ pc = "idle"
    /\ req' = [op |-> "read_root"]
    /\ pc' = "done"
    /\ response' = Ok([message |-> "Halfsy API is running"])
    /\ UNCHANGED <<products_collection, messages_collection, OUTLOOK_USER,
                   OUTLOOK_PASSWORD, top_deals, total_products, inserted_id,
                   log, dirty>>

(***************************************************************************)
(* Startup (lines 33-52) and the end of a request.                         *)
(***************************************************************************)
NoRequest == [op |-> "none"]

\* both handles are set in one try block: None together when it fails
Startup(connected, user, password) ==
    /\ products_collection = IF connected THEN Collection(<<>>) ELSE None
    /\ messages_collection = IF connected THEN Collection(<<>>) ELSE None
    /\ OUTLOOK_USER = user
    /\ OUTLOOK_PASSWORD = password
    /\ pc = "idle"
    /\ req = NoRequest
    /\ top_deals = <<>>
    /\ total_products = 0
    /\ inserted_id = 0
    /\ response = NoResponse
    /\ log = <<>>
    /\ dirty = FALSE

\* the response is sent; each request is handled independently
Respond ==
    /\ pc = "done"
    /\ pc' = "idle"
    /\ req' = NoRequest
    /\ top_deals' = <<>>
    /\ total_products' = 0
    /\ inserted_id' = 0
    /\ response' = NoResponse
    /\ log' = <<>>
    /\ dirty' = FALSE
    /\ UNCHANGED <<products_collection, messages_collection, OUTLOOK_USER,
                   OUTLOOK_PASSWORD>>

InitCatalog == \E connected \in BOOLEAN : Startup(connected, None, None)

NextCatalog ==
    \/ WriterInsert
    \/ WriterDelete
    \/ read_root
    \/ get_top_deals
    \/ TopDealsDiscount
    \/ TopDealsBackfill
    \/ TopDealsFallback
    \/ get_products
    \/ ProductsCount
    \/ ProductsAggregate
    \/ get_brands
    \/ Respond

SpecCatalog == InitCatalog /\ [][NextCatalog]_vars

(***************************************************************************)
(* POST /api/contact                                                       *)
(***************************************************************************)
Emails == {"ann@example.com", "bob@example.com"}
Texts == {"hello"}

\* what the SMTP session of lines 241-246 may do
SmtpOutcomes ==
    {"connect_error", "starttls_error", "login_error", "sendmail_error", "sent"}

\* str(result.inserted_id), the identifier written in decimal digits
RECURSIVE Digits(_)
Digits(n) ==
    LET ch == CHOOSE c \in AsciiDigits : DigitVal(c) = n % 10
    IN  IF n < 10 THEN <<ch>> ELSE Append(Digits(n \div 10), ch)

\* an SMTP error leaves send_outlook_notification
RaisesOnSmtpError(outcome) == outcome # "sent" /\ outcome # "skipped"

\* lines 250-252: except Exception returns False, nothing leaves the function
NotificationRaises(outcome) == FALSE

\* the insert failed and the handler goes on to notify
AfterInsertAlwaysNotify(ok) == "cf_notify"

\* lines 274-285: insert_one raising leaves the try block
AfterInsert(ok) == IF ok THEN "cf_notify" ELSE "done"

ContactError == HTTPException(500, "Error processing contact form")

submit_contact_form ==
    /\ pc = "idle"
    /\ messages_collection # None =>
            Len(messages_collection.docs) < MaxMessages
    /\ \E email \in Emails, message \in Texts :
        req' = [op |-> "submit_contact_form", email |-> email,
                message |-> message]
    /\ IF messages_collection = None
       THEN pc' = "done" /\ response' = DatabaseNotAvailable
       ELSE pc' = "cf_insert" /\ UNCHANGED response
    /\ UNCHANGED <<products_collection, messages_collection, OUTLOOK_USER,
                   OUTLOOK_PASSWORD, top_deals, total_products, inserted_id,
                   log, dirty>>

\* lines 267-274: the document and insert_one; the store assigns the id
ContactInsert ==
    /\ pc = "cf_insert"
    /\ \E ok \in BOOLEAN :
        /\ log' = Append(log, [call |-> "insert_one", ok |-> ok])
        /\ pc' = AfterInsert(ok)
        /\ IF ok
           THEN LET id == Len(messages_collection.docs) + 1
                IN  /\ messages_collection' = Collection(
                            Append(messages_collection.docs,
                                   [_id |-> id, email |-> req.email,
                                    message |-> req.message,
                                    timestamp |-> "utc_now"]))
                    /\ inserted_id' = id
                    /\ UNCHANGED response
           ELSE /\ response' = ContactError
                /\ UNCHANGED <<messages_collection, inserted_id>>
    /\ UNCHANGED <<products_collection, OUTLOOK_USER, OUTLOOK_PASSWORD, req,
                   top_deals, total_products, dirty>>

\* send_outlook_notification (lines 211-252), then the return of lines 279-283
ContactNotify ==
    /\ pc = "cf_notify"
    /\ pc' = "done"
    /\ \E outcome \in SmtpOutcomes \cup {"skipped"} :
        /\ (outcome = "skipped") <=>
                (OUTLOOK_USER = None \/ OUTLOOK_PASSWORD = None)
        /\ log' = Append(log, [call |-> "send_outlook_notification",
                               ok |-> outcome = "sent",
                               outcome |-> outcome])
        /\ response' =
             IF NotificationRaises(outcome)
             THEN ContactError
             ELSE Ok([success |-> TRUE,
                      message |-> "Thank you for contacting us! We'll get back to you soon.",
                      id |-> Digits(inserted_id)])
    /\ UNCHANGED <<products_collection, messages_collection, OUTLOOK_USER,
                   OUTLOOK_PASSWORD, req, top_deals, total_products,
                   inserted_id, dirty>>

InitContact ==
    \E connected \in BOOLEAN, user \in {None, Str("ops@halfsy.shop")},
       password \in {None, Str("secret")} :
        Startup(connected, user, password)

NextContact ==
    \/ submit_contact_form
    \/ ContactInsert
    \/ ContactNotify
    \/ Respond

SpecContact == InitContact /\ [][NextContact]_vars

(***************************************************************************)
(* Properties.                                                             *)
(***************************************************************************)
Done(op) == pc = "done" /\ req.op = op

Calls(name) == SelectSeq(log, LAMBDA e : e.call = name)
Succeeded(name) == \E i \in 1..Len(log) : log[i].call = name /\ log[i].ok
Failed(name) == \E i \in 1..Len(log) : log[i].call = name /\ ~log[i].ok

\* C1: with the store reachable, submit_contact_form answers success with the
\* decimal string of the stored record's id exactly when the insert succeeded
\* and a 500 error exactly when it failed, whatever the notification did
\* (skipped, any SMTP error, or sent).
C1_ResponseFollowsInsert ==
    (Done("submit_contact_form") /\ messages_collection # None) =>
        LET docs == messages_collection.docs
        IN  /\ Succeeded("insert_one") \/ Failed("insert_one")
            /\ Succeeded("insert_one") =>
                /\ response.status = 200
                /\ response.body.success = TRUE
                /\ IntParses(response.body.id)
                /\ Int_(response.body.id) = docs[Len(docs)]._id
                /\ docs[Len(docs)].email = req.email
            /\ Failed("insert_one") <=> response.status = 500
            /\ response.status \in {200, 500}

\* C1 witness: the insert succeeded, the SMTP login failed, the answer is 200
C1_Witness ==
    /\ Done("submit_contact_form")
    /\ Succeeded("insert_one")
    /\ \E i \in 1..Len(log) : log[i].call = "send_outlook_notification"
                                /\ log[i].outcome = "login_error"
    /\ response.status = 200
    /\ response.body.id = <<"2">>

\* C2: in every state of a submit_contact_form request the side effects so
\* far are a prefix of <<insert, notify>>: at most one insert and at most one
\* notification, the notification only after a successful insert, and none
\* when the insert failed or the store is unavailable.
C2_InsertThenNotifyOnce ==
    LET inserts == Calls("insert_one")
        notifies == Calls("send_outlook_notification")
    IN  /\ Len(inserts) <= 1
        /\ Len(notifies) <= 1
        /\ Len(notifies) = 1 =>
            /\ Len(log) = 2
            /\ log[1].call = "insert_one" /\ log[1].ok
            /\ log[2].call = "send_outlook_notification"
        /\ Failed("insert_one") => notifies = <<>>
        /\ messages_collection = None => log = <<>>

\* C2 witness: a finished request that inserted and then sent the mail
C2_Witness ==
    /\ Done("submit_contact_form")
    /\ Len(log) = 2
    /\ log[1].call = "insert_one" /\ log[1].ok
    /\ log[2].call = "send_outlook_notification" /\ log[2].outcome = "sent"

\* the documents of the store that the brand/min_discount filter selects
Matching ==
    {i \in 1..Len(products_collection.docs) :
        LET doc == products_collection.docs[i]
        IN  /\ Truthy(req.brand) => doc.brand_name = req.brand
            /\ (req.min_discount.t = "str"
                    /\ IntParses(req.min_discount.v)) =>
                    /\ doc.discount.t = "num"
                    /\ doc.discount.v >= Int_(req.min_discount.v)}

\* C3: a get_products response (page >= 1, limit > 0) holds at most limit
\* products, and has_more is true iff (page-1)*limit + limit < total_products;
\* over a catalog that did not change, total_products is the number of
\* products matching the filter.
C3_PageSizeAndHasMore ==
    (Done("get_products") /\ response.status = 200) =>
        /\ req.page >= 1 /\ req.limit > 0
        /\ Len(response.body.products) <= req.limit
        /\ response.body.has_more <=>
            ((req.page - 1) * req.limit + req.limit
                    < response.body.total_products)
        /\ ~dirty => response.body.total_products = Cardinality(Matching)

\* C3 witness: a full first page with more products behind it
C3_Witness ==
    /\ Done("get_products") /\ response.status = 200
    /\ ~dirty
    /\ req.page = 1 /\ req.limit = 2
    /\ Len(response.body.products) = 2
    /\ response.body.total_products = 3
    /\ response.body.has_more

\* C4: without a brand filter, whatever sort_by and sort_order, no returned
\* product of a non-priority brand stands before one of a priority brand.
C4_PriorityBrandsFirst ==
    (Done("get_products") /\ response.status = 200 /\ ~Truthy(req.brand)) =>
        LET products == response.body.products
        IN  \A i, j \in 1..Len(products) :
                (i < j /\ products[j].brand_name \in PRIORITY_BRANDS)
                    => products[i].brand_name \in PRIORITY_BRANDS

\* C4, for every sort_by other than the computed field brand_priority itself:
\* the priority brands do come first.
C4_PriorityFirstUnlessSortedByPriority ==
    (req.op = "get_products" /\ req.sort_by # Str("brand_priority"))
        => C4_PriorityBrandsFirst

\* C5: when a step of the primary path of get_top_deals fails, exactly one
\* fallback query is made, as the last store call; its result, the first limit
\* products in store order, is returned, and the answer is a 500 error iff
\* the fallback query failed too.
C5_OneFallbackFirstLimit ==
    (Done("get_top_deals") /\ products_collection # None
        /\ (Failed("find_discount") \/ Failed("find_backfill"))) =>
        /\ Len(Calls("find_fallback")) = 1
        /\ log[Len(log)].call = "find_fallback"
        /\ Failed("find_fallback") <=> response.status = 500
        /\ Succeeded("find_fallback") =>
                response = Ok(ProjectAll(Take(products_collection.docs,
                                              req.limit)))

\* C5, for a limit of at least one product: as stated.
C5_OneFallbackPositiveLimit ==
    (req.op = "get_top_deals" /\ req.limit >= 1) => C5_OneFallbackFirstLimit

C7_BackfillNoDuplicateLink ==
    (Done("get_top_deals") /\ Succeeded("find_backfill")) =>
        LET primary == log[Len(log)].primary
        IN  \A i \in 1..primary, j \in (primary + 1)..Len(top_deals) :
                top_deals[j].product_link # Missing
                    => top_deals[j].product_link # top_deals[i].product_link

\* C7, for the links that are not empty: the backfill repeats none of them.
C7_NoDuplicateOfNonEmptyLink ==
    (Done("get_top_deals") /\ Succeeded("find_backfill")) =>
        LET primary == log[Len(log)].primary
        IN  \A i \in 1..primary, j \in (primary + 1)..Len(top_deals) :
                Truthy(top_deals[j].product_link)
                    => top_deals[j].product_link # top_deals[i].product_link

\* the claimed reading of a disc_pct value: one leading "-" and one trailing
\* "%" stripped, the rest an unsigned integer, anything else 0
C8_Claimed(d) ==
    IF d.t # "str" THEN 0
    ELSE LET a == IF d.v # <<>> /\ d.v[1] = "-" THEN Tail(d.v) ELSE d.v
             b == IF a # <<>> /\ a[Len(a)] = "%"
                  THEN SubSeq(a, 1, Len(a) - 1) ELSE a
         IN  IF b # <<>> /\ (\A i \in 1..Len(b) : b[i] \in AsciiDigits)
             THEN Decimal(b) ELSE 0

\* C8: extract_discount returns, for every disc_pct value, the unsigned
\* integer left after stripping a leading "-" and a trailing "%", and 0 for
\* every other value ("-" or "%" elsewhere, letters, empty, missing, null).
C8_StripsLeadingAndTrailing ==
    pc = "done" =>
        response.returned =
            C8_Claimed(IF req.product.disc_pct = Missing THEN None
                       ELSE req.product.disc_pct)

\* C8 as amended: extract_discount returns a number for every disc_pct value:
\* the decimal value of what is left once every "-" and every "%" is removed,
\* wherever they stand, if that is one or more ASCII digits, and 0 otherwise
\* (empty, missing, null, not a string, or any other character left).
C8_RemovesEverySignAndPercent ==
    pc = "done" =>
        LET d == req.product.disc_pct
            kept == IF d.t = "str"
                    THEN SelectSeq(d.v, LAMBDA c : c \notin {"-", "%"})
                    ELSE <<>>
        IN  /\ response.returned \in Nat
            /\ response.returned =
                 IF kept # <<>> /\ (\A i \in 1..Len(kept) :
                                        kept[i] \in AsciiDigits)
                 THEN Decimal(kept) ELSE 0

\* C8 witness: "-50%" was parsed to 50
C8_Witness ==
    /\ pc = "done"
    /\ req.product.disc_pct = Str(<<"-", "5", "0", "%">>)
    /\ response.returned = 50

\* C9: when the primary path succeeds without a concurrent write, the result
\* holds at most limit products in non-increasing order of parsed discount,
\* and no product of the catalog with a non-empty disc_pct that is left out
\* has a strictly higher parsed discount than a returned product.
C9_HighestDiscountsReturned ==
    (Done("get_top_deals") /\ response.status = 200 /\ ~dirty
        /\ ~Failed("find_discount") /\ ~Failed("find_backfill")) =>
        LET result == response.body
            docs == products_collection.docs
        IN  /\ Len(result) <= req.limit
            /\ \A i, j \in 1..Len(result) : i < j =>
                    extract_discount(result[i]) >= extract_discount(result[j])
            /\ \A k \in 1..Len(docs) :
                    (/\ docs[k].disc_pct.t = "str"
                     /\ docs[k].disc_pct.v # <<>>
                     /\ \A i \in 1..Len(result) : result[i] # Project(docs[k]))
                    => \A i \in 1..Len(result) :
                            extract_discount(docs[k])
                                <= extract_discount(result[i])

\* C10: every get_products response holds exactly
\* min(limit, max(0, total_products - (page-1)*limit)) products, also when
\* the catalog is written while the request is in flight.
C10_ConsistentUnderWrites ==
    (Done("get_products") /\ response.status = 200) =>
        Len(response.body.products) =
            Min(req.limit,
                Max(0, response.body.total_products
                           - (req.page - 1) * req.limit))

\* C10 as amended: the same, for a request with no catalog write between its
\* count read and its page read.
C10_ConsistentWithoutWrites ==
    (Done("get_products") /\ response.status = 200 /\ ~dirty) =>
        Len(response.body.products) =
            Min(req.limit,
                Max(0, response.body.total_products
                           - (req.page - 1) * req.limit))

\* C10 witness: a short last page, read with no write in between
C10_Witness ==
    /\ Done("get_products") /\ response.status = 200 /\ ~dirty
    /\ req.page = 2 /\ req.limit = 2
    /\ response.body.total_products = 3
    /\ Len(response.body.products) = 1
    /\ ~response.body.has_more

====
